---- MODULE Spec2Model ----
(***************************************************************************)
(* hop-js: the Hop constructor, the projects and registry SDKs and the     *)
(* typed-channels helper, as a state machine.                              *)
(*                                                                         *)
(* A JavaScript primitive is a record [t, s]: t is its typeof tag and s    *)
(* the characters of a string (or the digits of a number).  An object the  *)
(* code builds (a parameter mapping, an options bag, an envelope) is a     *)
(* TLA+ record over the keys the object has: a key holding undefined is in *)
(* its DOMAIN, a key the object lacks is not.                              *)
(***************************************************************************)
EXTENDS Integers, Sequences, FiniteSets, TLC

\* ---------------------------------------------------------------- bounds

\* Number of SDK invocations one client serves in a behaviour; they may all
\* be suspended at their network request at the same time.
MaxCalls == 2

\* ------------------------------------------------------------ JS values

Undefined == [t |-> "undefined", s |-> <<>>]
Str(chars) == [t |-> "string", s |-> chars]
Num(digits) == [t |-> "number", s |-> digits]

Obj(o) == [t |-> "object", o |-> o]
EmptyObject == <<>>

\* JavaScript truthiness, as `!x` and `if (x)` read it: undefined and the
\* empty string are falsy, an object and a non-empty string are truthy.
Truthy(v) == /\ v.t # "undefined"
             /\ ~(v.t = "string" /\ Len(v.s) = 0)

\* A property read o.k: undefined when the object has no such key.
Get(o, k) == IF k \in DOMAIN o THEN o[k] ELSE Undefined

\* The object literal {...a, ...b}: b's own keys win, also when they hold
\* undefined.
Spread(a, b) ==
    [k \in DOMAIN a \cup DOMAIN b |-> IF k \in DOMAIN b THEN b[k] ELSE a[k]]

\* Does the string value v start with the characters p?
StartsWith(v, p) ==
    /\ v.t = "string"
    /\ Len(v.s) >= Len(p)
    /\ SubSeq(v.s, 1, Len(p)) = p

\* JSON.stringify of a string: quoted, with quotes and backslashes escaped.
RECURSIVE JsonEscape(_)
JsonEscape(chars) ==
    IF chars = <<>> THEN <<>>
    ELSE (IF Head(chars) \in {"\"", "\\"} THEN <<"\\", Head(chars)>>
          ELSE <<Head(chars)>>) \o JsonEscape(Tail(chars))

JsonStringify(v) == Str(<<"\"">> \o JsonEscape(v.s) \o <<"\"">>)

\* An Error object as the caller sees it.
Err(name, message) == [name |-> name, message |-> message]
NoError == Err("", "")

Last(seq) == seq[Len(seq)]

\* ------------------------------------------------------- literal values

PTK_SECRET == Str(<<"p", "t", "k", "_", "a">>)
PAT_SECRET == Str(<<"p", "a", "t", "_", "a">>)
BEARER_SECRET == Str(<<"b", "e", "a", "r", "e", "r", "_", "a">>)
UNKNOWN_SECRET == Str(<<"x", "y", "z">>)
EMPTY_STRING == Str(<<>>)

DEFAULT_BASE_URL == Str(<<"a", "p", "i">>)
CUSTOM_URL == Str(<<"m", "y">>)

PROJECT_1 == Str(<<"p", "r", "o", "j", "e", "c", "t", "_", "1">>)
PTKID_1 == Str(<<"p", "t", "k", "i", "d", "_", "1">>)
WEBHOOK_1 == Str(<<"w", "e", "b", "h", "o", "o", "k", "_", "1">>)
SECRET_1 == Str(<<"s", "e", "c", "r", "e", "t", "_", "1">>)
IMAGE_1 == Str(<<"i", "m", "g">>)
NAME_1 == Str(<<"K", "E", "Y">>)
WEBHOOK_URL_1 == Str(<<"h", "o", "o", "k">>)
EVENTS_1 == Str(<<"e", "v">>)
FLAGS_1 == Num(<<"1">>)

\* --------------------------------------------------------- the APIClient
\* rest/client.ts is not among the sources: the client is modelled from the
\* specification's sections 4.1 (Authentication Resolver) and 4.3 (Request
\* Dispatcher).

AuthTypes == {"ptk", "pat", "bearer"}

\* classify: the credential kind from the secret's prefix; "invalid" for the
\* empty string and for any string of no supported form.
classify(secret) ==
    IF StartsWith(secret, <<"p", "t", "k", "_">>) THEN "ptk"
    ELSE IF StartsWith(secret, <<"p", "a", "t", "_">>) THEN "pat"
    ELSE IF StartsWith(secret, <<"b", "e", "a", "r", "e", "r", "_">>) THEN "bearer"
    ELSE "invalid"

\* new APIClient(options): fails with InvalidCredential when the secret is
\* not recognised; otherwise holds the credential, its kind and the base URL
\* it was given.
APIClient(options) ==
    LET kind == classify(Get(options, "authentication")) IN
    IF kind = "invalid"
    THEN [ok |-> FALSE, error |-> Err("InvalidCredential", "unrecognised credential"),
          client |-> EmptyObject]
    ELSE [ok |-> TRUE, error |-> NoError,
          client |-> [authentication |-> Get(options, "authentication"),
                      authType |-> kind,
                      baseUrl |-> Get(options, "baseUrl")]]

\* The ':name' placeholders of each path template the SDKs use.
Placeholders(path) ==
    CASE path \in {"/v1/projects/:project_id/tokens/:project_token_id"}
            -> {"project_id", "project_token_id"}
      [] path \in {"/v1/projects/@this/tokens/:project_token_id"}
            -> {"project_token_id"}
      [] path \in {"/v1/projects/:project_id/tokens",
                   "/v1/projects/:project_id/webhooks",
                   "/v1/projects/:project_id/members",
                   "/v1/projects/:project_id/members/@me",
                   "/v1/projects/:project_id/secrets"}
            -> {"project_id"}
      [] path \in {"/v1/projects/:project_id/webhooks/:webhook_id",
                   "/v1/projects/:project_id/webhooks/:webhook_id/regenerate"}
            -> {"project_id", "webhook_id"}
      [] path \in {"/v1/projects/@this/webhooks/:webhook_id",
                   "/v1/projects/@this/webhooks/:webhook_id/regenerate"}
            -> {"webhook_id"}
      [] path \in {"/v1/projects/@this/secrets/:name"}
            -> {"name"}
      [] path \in {"/v1/projects/@this/secrets/:secret_id"}
            -> {"secret_id"}
      [] path \in {"/v1/projects/:project_id/secrets/:secret_id"}
            -> {"project_id", "secret_id"}
      [] path \in {"/v1/registry/images/:image/manifests",
                   "/v1/registry/images/:image"}
            -> {"image"}
      [] OTHER -> {}

\* A placeholder is resolved by a defined, non-empty value of the mapping.
Resolves(params, name) == Truthy(Get(params, name))

\* client.url substituting whatever the mapping holds for a placeholder,
\* a missing value included.
ClientUrl_lenient(client, path, params) ==
    [ok |-> TRUE, error |-> NoError,
     url |-> [base |-> client.baseUrl,
              path |-> path,
              segments |-> [n \in Placeholders(path) |-> Get(params, n)],
              query |-> [k \in {q \in DOMAIN params \ Placeholders(path) :
                                   params[q].t # "undefined"} |-> params[k]]]]

\* The text String(undefined) yields.
UNDEFINED_TEXT == Str(<<"u", "n", "d", "e", "f", "i", "n", "e", "d">>)

\* client.url serialising every remaining entry, an undefined one as text.
ClientUrl_stringifying(client, path, params) ==
    IF \E name \in Placeholders(path) : ~Resolves(params, name)
    THEN [ok |-> FALSE, error |-> Err("Error", "missing path parameter"),
          url |-> EmptyObject]
    ELSE [ok |-> TRUE, error |-> NoError,
          url |-> [base |-> client.baseUrl,
                   path |-> path,
                   segments |-> [n \in Placeholders(path) |-> params[n]],
                   query |-> [k \in DOMAIN params \ Placeholders(path) |->
                                 IF params[k].t = "undefined"
                                 THEN UNDEFINED_TEXT ELSE params[k]]]]

\* client.url(path, params): every placeholder of the template takes its
\* value from params, a missing one fails at once; the remaining entries
\* become the query string, those holding undefined left out altogether.
ClientUrl(client, path, params) ==
    IF \E name \in Placeholders(path) : ~Resolves(params, name)
    THEN [ok |-> FALSE, error |-> Err("Error", "missing path parameter"),
          url |-> EmptyObject]
    ELSE [ok |-> TRUE, error |-> NoError,
          url |-> [base |-> client.baseUrl,
                   path |-> path,
                   segments |-> [n \in Placeholders(path) |-> params[n]],
                   query |-> [k \in {q \in DOMAIN params \ Placeholders(path) :
                                        params[q].t # "undefined"} |-> params[k]]]]

\* The one authentication header the dispatcher attaches, by credential kind.
AuthHeader(client) == [scheme |-> client.authType, value |-> client.authentication]

\* new Request(url, init) of util/fetch.
Request(url, init) ==
    [url |-> url, method |-> init.method, headers |-> init.headers,
     body |-> init.body]

\* client.get/post/patch/delete(path, body, params) up to the network: the
\* URL is built as by client.url, a structured body is JSON-encoded, and
\* the request is ready to be sent once.
Dispatch(client, call) ==
    LET built == ClientUrl(client, call.path, call.params) IN
    IF ~built.ok
    THEN [ok |-> FALSE, error |-> built.error, wire |-> EmptyObject]
    ELSE [ok |-> TRUE, error |-> NoError,
          wire |-> [method |-> call.method,
                    url |-> built.url,
                    headers |-> IF call.body = Undefined THEN EmptyObject
                                ELSE "Content-Type" :> "application/json",
                    body |-> IF call.body = Undefined THEN Undefined
                             ELSE [json |-> call.body],
                    auth |-> AuthHeader(client)]]

\* client.raw(request): the prepared Request is sent as it stands, with the
\* authentication header added.
Raw(client, call) ==
    [ok |-> TRUE, error |-> NoError,
     wire |-> [method |-> call.request.method,
               url |-> call.request.url,
               headers |-> call.request.headers,
               body |-> call.request.body,
               auth |-> AuthHeader(client)]]

\* The Endpoint Descriptors: the field of the response envelope each
\* (method, path template) declares, "" for an empty response.
EndpointField(method, path) ==
    CASE method = "GET" /\ path \in {"/v1/projects/@this/tokens",
                                     "/v1/projects/:project_id/tokens"}
            -> "project_tokens"
      [] method = "POST" /\ path \in {"/v1/projects/@this/tokens",
                                      "/v1/projects/:project_id/tokens"}
            -> "project_token"
      [] method = "GET" /\ path \in {"/v1/projects/@this/webhooks",
                                     "/v1/projects/:project_id/webhooks"}
            -> "webhooks"
      [] method = "POST" /\ path \in {"/v1/projects/@this/webhooks",
                                      "/v1/projects/:project_id/webhooks"}
            -> "webhook"
      [] method = "PATCH" /\ path \in {"/v1/projects/@this/webhooks/:webhook_id",
                                       "/v1/projects/:project_id/webhooks/:webhook_id"}
            -> "webhook"
      [] method = "POST"
         /\ path \in {"/v1/projects/@this/webhooks/:webhook_id/regenerate",
                      "/v1/projects/:project_id/webhooks/:webhook_id/regenerate"}
            -> "secret"
      [] method = "GET" /\ path \in {"/v1/projects/@this/members",
                                     "/v1/projects/:project_id/members"}
            -> "members"
      [] method = "GET" /\ path = "/v1/projects/:project_id/members/@me"
            -> "project_member"
      [] method = "GET" /\ path \in {"/v1/projects/@this/secrets",
                                     "/v1/projects/:project_id/secrets"}
            -> "secrets"
      [] method = "PUT" /\ path = "/v1/projects/@this/secrets/:name"
            -> "secret"
      [] method = "GET" /\ path = "/v1/registry/images" -> "images"
      [] method = "GET" /\ path = "/v1/registry/images/:image/manifests"
            -> "manifests"
      [] OTHER -> ""

\* The declared field of the request a call has in flight; a channels call
\* answers with no envelope the helper reads.
DeclaredField(wire) ==
    IF "url" \in DOMAIN wire THEN EndpointField(wire.method, wire.url.path) ELSE ""

\* Decoding a successful answer against the response shape the endpoint
\* declares: an envelope without the declared field is a DecodeError.
Decode(envelope, field) ==
    IF field # "" /\ field \notin DOMAIN envelope
    THEN [ok |-> FALSE, error |-> Err("DecodeError", "unexpected response shape"),
          envelope |-> EmptyObject]
    ELSE [ok |-> TRUE, error |-> NoError, envelope |-> envelope]

\* ------------------------------------------------ what an SDK method does
\* A method runs synchronously to its first await.  Its step is either a
\* throw, or the client calls it made (the last one awaited) together with
\* the field it will destructure from the answer ("" when it reads none).

Throw(message) ==
    [kind |-> "throw", error |-> Err("Error", message), calls |-> <<>>, field |-> ""]
Await(calls, field) ==
    [kind |-> "await", error |-> NoError, calls |-> calls, field |-> field]

client_get(path, params) ==
    [via |-> "get", method |-> "GET", path |-> path, params |-> params,
     body |-> Undefined]
client_post(path, body, params) ==
    [via |-> "post", method |-> "POST", path |-> path, params |-> params,
     body |-> body]
client_patch(path, body, params) ==
    [via |-> "patch", method |-> "PATCH", path |-> path, params |-> params,
     body |-> body]
client_delete(path, body, params) ==
    [via |-> "delete", method |-> "DELETE", path |-> path, params |-> params,
     body |-> body]
client_url(path, params) ==
    [via |-> "url", method |-> "", path |-> path, params |-> params,
     body |-> Undefined]
client_raw(request) ==
    [via |-> "raw", method |-> request.method, path |-> request.url.path,
     params |-> EmptyObject, body |-> request.body, request |-> request]

\* ---------------------------------------------------------- projects SDK

\* tokens.delete naming the project the way secrets.create does: always the
\* '@this' template, the project id beside the path parameters.
tokens_delete_as_query(client, projectTokenId, project) ==
    IF client.authType # "ptk" /\ ~Truthy(project)
    THEN Throw("Project ID is required for bearer or PAT authentication to delete a project token")
    ELSE Await(<<client_delete("/v1/projects/@this/tokens/:project_token_id",
                               Undefined,
                               [project_token_id |-> projectTokenId,
                                project |-> project])>>, "")

tokens_delete(client, projectTokenId, project) ==
    IF client.authType # "ptk" /\ ~Truthy(project)
    THEN Throw("Project ID is required for bearer or PAT authentication to delete a project token")
    ELSE Await(<<client_delete(
                    IF Truthy(project)
                    THEN "/v1/projects/:project_id/tokens/:project_token_id"
                    ELSE "/v1/projects/@this/tokens/:project_token_id",
                    Undefined,
                    IF Truthy(project)
                    THEN [project_id |-> project, project_token_id |-> projectTokenId]
                    ELSE [project_token_id |-> projectTokenId])>>, "")

\* tokens.get without its guard.
tokens_get_unguarded(client, projectId) ==
    IF ~Truthy(projectId)
    THEN Await(<<client_get("/v1/projects/@this/tokens", EmptyObject)>>,
               "project_tokens")
    ELSE Await(<<client_get("/v1/projects/:project_id/tokens",
                            [project_id |-> projectId])>>, "project_tokens")

tokens_get(client, projectId) ==
    IF client.authType # "ptk" /\ ~Truthy(projectId)
    THEN Throw("Project ID is required for bearer or PAT authentication")
    ELSE IF ~Truthy(projectId)
    THEN Await(<<client_get("/v1/projects/@this/tokens", EmptyObject)>>,
               "project_tokens")
    ELSE Await(<<client_get("/v1/projects/:project_id/tokens",
                            [project_id |-> projectId])>>, "project_tokens")

\* tokens.create destructuring a field the endpoint does not declare.
tokens_create_wrong_field(client, flags, projectId) ==
    IF ~Truthy(projectId) /\ client.authType # "ptk"
    THEN Throw("Project ID is required for bearer or PAT authentication to create a project token")
    ELSE IF ~Truthy(projectId)
    THEN Await(<<client_post("/v1/projects/@this/tokens", [flags |-> flags],
                             EmptyObject)>>, "token")
    ELSE Await(<<client_post("/v1/projects/:project_id/tokens", [flags |-> flags],
                             [project_id |-> projectId])>>, "token")

tokens_create(client, flags, projectId) ==
    IF ~Truthy(projectId) /\ client.authType # "ptk"
    THEN Throw("Project ID is required for bearer or PAT authentication to create a project token")
    ELSE IF ~Truthy(projectId)
    THEN Await(<<client_post("/v1/projects/@this/tokens", [flags |-> flags],
                             EmptyObject)>>, "project_token")
    ELSE Await(<<client_post("/v1/projects/:project_id/tokens", [flags |-> flags],
                             [project_id |-> projectId])>>, "project_token")

webhooks_get(client, projectId) ==
    IF client.authType # "ptk" /\ ~Truthy(projectId)
    THEN Throw("Project ID is required for bearer or PAT authentication to fetch all project members")
    ELSE IF Truthy(projectId)
    THEN Await(<<client_get("/v1/projects/:project_id/webhooks",
                            [project_id |-> projectId])>>, "webhooks")
    ELSE Await(<<client_get("/v1/projects/@this/webhooks", EmptyObject)>>,
               "webhooks")

webhooks_create(client, webhook_url, events, projectId) ==
    IF client.authType # "ptk" /\ ~Truthy(projectId)
    THEN Throw("Project ID is required for bearer or PAT authentication to create a webhook")
    ELSE IF Truthy(projectId)
    THEN Await(<<client_post("/v1/projects/:project_id/webhooks",
                             [webhook_url |-> webhook_url, events |-> events],
                             [project_id |-> projectId])>>, "webhook")
    ELSE Await(<<client_post("/v1/projects/@this/webhooks",
                             [webhook_url |-> webhook_url, events |-> events],
                             EmptyObject)>>, "webhook")

webhooks_edit(client, webhookId, webhookUrl, events, projectId) ==
    IF client.authType # "ptk" /\ ~Truthy(projectId)
    THEN Throw("Project ID is required for bearer or PAT authentication to edit a webhook")
    ELSE IF Truthy(projectId)
    THEN Await(<<client_patch("/v1/projects/:project_id/webhooks/:webhook_id",
                              [webhook_url |-> webhookUrl, events |-> events],
                              [project_id |-> projectId, webhook_id |-> webhookId])>>,
               "webhook")
    ELSE Await(<<client_patch("/v1/projects/@this/webhooks/:webhook_id",
                              [webhook_url |-> webhookUrl, events |-> events],
                              [webhook_id |-> webhookId])>>, "webhook")

webhooks_delete(client, webhookId, projectId) ==
    IF client.authType # "ptk" /\ ~Truthy(projectId)
    THEN Throw("Project ID is required for bearer or PAT authentication to delete a webhook")
    ELSE IF Truthy(projectId)
    THEN Await(<<client_delete("/v1/projects/:project_id/webhooks/:webhook_id",
                               Undefined,
                               [project_id |-> projectId, webhook_id |-> webhookId])>>,
               "")
    ELSE Await(<<client_delete("/v1/projects/@this/webhooks/:webhook_id",
                               Undefined, [webhook_id |-> webhookId])>>, "")

webhooks_regenerateSecret(client, webhookId, projectId) ==
    IF client.authType # "ptk" /\ ~Truthy(projectId)
    THEN Throw("Project ID is required for bearer or PAT authentication to regenerate a webhook secret")
    ELSE IF Truthy(projectId)
    THEN Await(<<client_post("/v1/projects/:project_id/webhooks/:webhook_id/regenerate",
                             Undefined,
                             [project_id |-> projectId, webhook_id |-> webhookId])>>,
               "secret")
    ELSE Await(<<client_post("/v1/projects/@this/webhooks/:webhook_id/regenerate",
                             Undefined, [webhook_id |-> webhookId])>>, "secret")

getAllMembers(client, projectId) ==
    IF client.authType # "ptk" /\ ~Truthy(projectId)
    THEN Throw("Project ID is required for bearer or PAT authentication to fetch all project members")
    ELSE IF Truthy(projectId)
    THEN Await(<<client_get("/v1/projects/:project_id/members",
                            [project_id |-> projectId])>>, "members")
    ELSE Await(<<client_get("/v1/projects/@this/members", EmptyObject)>>,
               "members")

\* getCurrentMember refusing a project token only when no project id came.
getCurrentMember_lenient(client, projectId) ==
    IF client.authType = "ptk" /\ ~Truthy(projectId)
    THEN Throw("You cannot resolve a member from a project token! You must use a bearer or pat token")
    ELSE Await(<<client_get("/v1/projects/:project_id/members/@me",
                            [project_id |-> projectId])>>, "project_member")

getCurrentMember(client, projectId) ==
    IF client.authType = "ptk"
    THEN Throw("You cannot resolve a member from a project token! You must use a bearer or pat token")
    ELSE Await(<<client_get("/v1/projects/:project_id/members/@me",
                            [project_id |-> projectId])>>, "project_member")

\* secrets.getAll with the test choosing the template inverted.
secrets_getAll_inverted(client, projectId) ==
    IF client.authType # "ptk" /\ ~Truthy(projectId)
    THEN Throw("Project ID is required for bearer or PAT authentication to fetch all secrets")
    ELSE IF Truthy(projectId)
    THEN Await(<<client_get("/v1/projects/@this/secrets", EmptyObject)>>,
               "secrets")
    ELSE Await(<<client_get("/v1/projects/:project_id/secrets",
                            [project_id |-> projectId])>>, "secrets")

secrets_getAll(client, projectId) ==
    IF client.authType # "ptk" /\ ~Truthy(projectId)
    THEN Throw("Project ID is required for bearer or PAT authentication to fetch all secrets")
    ELSE IF ~Truthy(projectId)
    THEN Await(<<client_get("/v1/projects/@this/secrets", EmptyObject)>>,
               "secrets")
    ELSE Await(<<client_get("/v1/projects/:project_id/secrets",
                            [project_id |-> projectId])>>, "secrets")

\* The secret value sent as a JSON document.
secrets_create_request_json(url, value) ==
    Request(url, [headers |-> "Content-Type" :> "application/json",
                  body |-> JsonStringify(value),
                  method |-> "PUT"])

\* The request secrets.create prepares from the URL the client built.
secrets_create_request(url, value) ==
    Request(url, [headers |-> "Content-Type" :> "text/plain",
                  body |-> value,
                  method |-> "PUT"])

secrets_create(client, name, value, projectId) ==
    IF client.authType # "ptk" /\ ~Truthy(projectId)
    THEN Throw("Project ID is required for bearer or PAT authentication to create a secret")
    ELSE LET params == [name |-> name, project |-> projectId]
             built == ClientUrl(client, "/v1/projects/@this/secrets/:name", params)
             urlCall == client_url("/v1/projects/@this/secrets/:name", params)
         IN IF ~built.ok
            THEN [kind |-> "throw", error |-> built.error, calls |-> <<urlCall>>,
                  field |-> ""]
            ELSE Await(<<urlCall,
                         client_raw(secrets_create_request(built.url, value))>>,
                       "secret")

secrets_delete(client, id, projectId) ==
    IF client.authType # "ptk" /\ ~Truthy(projectId)
    THEN Throw("Project ID is required for bearer or PAT authentication to delete a secret")
    ELSE IF ~Truthy(projectId)
    THEN Await(<<client_delete("/v1/projects/@this/secrets/:secret_id",
                               Undefined, [secret_id |-> id])>>, "")
    ELSE Await(<<client_delete("/v1/projects/:project_id/secrets/:secret_id",
                               Undefined,
                               [secret_id |-> id, project_id |-> projectId])>>, "")

\* ---------------------------------------------------------- registry SDK

\* images.getAll returning another field of the envelope.
images_getAll_sibling(client, project) ==
    IF ~Truthy(project) /\ client.authType # "ptk"
    THEN Throw("Project is required when using a PAT or bearer")
    ELSE Await(<<client_get("/v1/registry/images", [project |-> project])>>,
               "secret")

images_getAll(client, project) ==
    IF ~Truthy(project) /\ client.authType # "ptk"
    THEN Throw("Project is required when using a PAT or bearer")
    ELSE Await(<<client_get("/v1/registry/images", [project |-> project])>>,
               "images")

images_getManifest(client, image, project) ==
    IF ~Truthy(project) /\ client.authType # "ptk"
    THEN Throw("Project is required when using a PAT or bearer")
    ELSE Await(<<client_get("/v1/registry/images/:image/manifests",
                            [image |-> image, project |-> project])>>,
               "manifests")

images_delete(client, image, project) ==
    IF ~Truthy(project) /\ client.authType # "ptk"
    THEN Throw("Project is required when using a PAT or bearer")
    ELSE Await(<<client_delete("/v1/registry/images/:image", Undefined,
                               [image |-> image, project |-> project])>>, "")

\* ------------------------------------------------- typed-channels helper
\* zod is a library: a schema z.object({n: z.number()}) is modelled by what
\* parseAsync does with it.  Its keys are required numbers (optional once
\* .partial() is applied) and keys it does not name are stripped.

StateSchema == [t |-> "object", shape |-> {"n"}, partial |-> FALSE]
partial(schema) == [schema EXCEPT !.partial = TRUE]

parseAsync(schema, data) ==
    IF \A k \in schema.shape :
          \/ Get(data, k).t = "number"
          \/ schema.partial /\ Get(data, k) = Undefined
    THEN [ok |-> TRUE, error |-> NoError,
          value |-> [k \in schema.shape \cap DOMAIN data |-> data[k]]]
    ELSE [ok |-> FALSE, error |-> Err("ZodError", "invalid input"),
          value |-> EmptyObject]

\* hop.channels.<method>(...args), one call into the channels SDK.
channels_call(method, args) ==
    [via |-> method, method |-> "", path |-> "", params |-> EmptyObject,
     body |-> Undefined, args |-> args]

\* A method suspended in schema.parseAsync(input).
Parse(schema, input) ==
    [kind |-> "parse", error |-> NoError, calls |-> <<>>, field |-> "",
     schema |-> schema, input |-> input]

\* unstable_typedChannelsClient.state(schema) and .events(schemas)
state(schema) == [schema |-> schema]
events(schemas) == [schemas |-> schemas]

\* The properties every object literal inherits from Object.prototype, and
\* what a read of one of them yields: a function (the prototype object
\* itself for __proto__).
ObjectPrototypeKeys ==
    {"constructor", "toString", "toLocaleString", "valueOf", "hasOwnProperty",
     "isPrototypeOf", "propertyIsEnumerable", "__proto__",
     "__defineGetter__", "__defineSetter__", "__lookupGetter__",
     "__lookupSetter__"}
Inherited(k) ==
    IF k = "__proto__" THEN [t |-> "object", s |-> <<>>]
    ELSE [t |-> "function", s |-> <<>>]

\* eventsDefinition.schemas?.[event]: a property read, which finds the own
\* entries of the schemas object and the properties it inherits.
EventSchema(eventsDefinition, event) ==
    IF eventsDefinition.schemas = Undefined THEN Undefined
    ELSE IF event \in DOMAIN eventsDefinition.schemas
    THEN eventsDefinition.schemas[event]
    ELSE IF event \in ObjectPrototypeKeys THEN Inherited(event)
    ELSE Undefined

\* A value with a parseAsync method: a zod schema.
HasParseAsync(v) == "shape" \in DOMAIN v

\* publish: a truthy schemas[event] is parsed with; calling parseAsync on a
\* value that has none is a TypeError before anything is sent.
publish(eventsDefinition, channel, event, data) ==
    IF Truthy(EventSchema(eventsDefinition, event))
    THEN IF HasParseAsync(EventSchema(eventsDefinition, event))
         THEN Parse(EventSchema(eventsDefinition, event), data)
         ELSE [kind |-> "throw",
               error |-> Err("TypeError",
                             "eventsDefinition.schemas[event].parseAsync is not a function"),
               calls |-> <<>>, field |-> ""]
    ELSE Await(<<channels_call("channels.publishMessage",
                               <<channel, event, data>>)>>, "")

publish_parsed(channel, event, parsed) ==
    Await(<<channels_call("channels.publishMessage",
                          <<channel, event, parsed>>)>>, "")

channel_delete(channel) ==
    Await(<<channels_call("channels.delete", <<channel>>)>>, "")

subscribeTokens(channel, tokens) ==
    Await(<<channels_call("channels.subscribeTokens", <<channel, tokens>>)>>, "")

setState(stateDefinition, channel, newState) ==
    IF Truthy(stateDefinition.schema)
    THEN Parse(stateDefinition.schema, newState)
    ELSE Await(<<channels_call("channels.setState", <<channel, newState>>)>>, "")

setState_parsed(channel, parsed) ==
    Await(<<channels_call("channels.setState", <<channel, parsed>>)>>, "")

patchState(stateDefinition, channel, newState) ==
    IF Truthy(stateDefinition.schema)
    THEN Parse(partial(stateDefinition.schema), newState)
    ELSE Await(<<channels_call("channels.patchState", <<channel, newState>>)>>, "")

patchState_parsed(channel, parsed) ==
    Await(<<channels_call("channels.setState", <<channel, parsed>>)>>, "")

\* The channels SDK (sdks/channels.ts is not among the sources): each of its
\* methods is one request, by the specification's section 1.
ChannelsSend(client, call) ==
    [ok |-> TRUE, error |-> NoError,
     wire |-> [method |-> call.via, args |-> call.args, auth |-> AuthHeader(client)]]

\* ------------------------------------------------------ the Hop constructor

Namespaces == {"ignite", "users", "projects", "pipe", "registry", "channels"}

\* The default parameter value baseUrl = DEFAULT_BASE_URL.
DefaultBaseUrl(baseUrl) == IF baseUrl = Undefined THEN DEFAULT_BASE_URL ELSE baseUrl

\* The test without its typeof check, reading .authentication of a string.
MissingAuthentication_untyped(authenticationOrOptions) ==
    \/ ~Truthy(authenticationOrOptions)
    \/ authenticationOrOptions.t # "object"
    \/ ~Truthy(Get(authenticationOrOptions.o, "authentication"))

\* The constructor's test for a missing credential.
MissingAuthentication(authenticationOrOptions) ==
    \/ ~Truthy(authenticationOrOptions)
    \/ /\ authenticationOrOptions.t = "object"
       /\ ~Truthy(Get(authenticationOrOptions.o, "authentication"))

\* The options the constructor passes to new APIClient.
ClientOptions(authenticationOrOptions, baseUrl) ==
    IF authenticationOrOptions.t = "object"
    THEN Spread([baseUrl |-> DEFAULT_BASE_URL], authenticationOrOptions.o)
    ELSE [authentication |-> authenticationOrOptions,
          baseUrl |-> DefaultBaseUrl(baseUrl)]

\* ------------------------------------------------------------ input sets

Credentials == {PTK_SECRET, PAT_SECRET, BEARER_SECRET, UNKNOWN_SECRET, EMPTY_STRING}

\* The options objects a caller may pass: authentication and baseUrl each
\* absent, undefined or set.
OptionBags ==
    {Spread(a, b) :
        a \in {EmptyObject} \cup
              {[authentication |-> c] : c \in Credentials \cup {Undefined}},
        b \in {EmptyObject, [baseUrl |-> Undefined], [baseUrl |-> CUSTOM_URL]}}

\* new Hop(authentication, baseurl?) and new Hop(options)
ConstructorArgs ==
    {<<a, b>> : a \in Credentials \cup {Undefined}, b \in {Undefined, CUSTOM_URL}}
    \cup {<<Obj(o), Undefined>> : o \in OptionBags}

ProjectArgs == {Undefined, PROJECT_1}

SecretValues == {Str(<<>>), Str(<<"\"", "v">>)}

CHANNEL_1 == Str(<<"c", "h">>)
TOKENS_1 == Str(<<"l", "t">>)
NUM_1 == Num(<<"1">>)

\* Payloads handed to the typed-channels helper: valid with a key the schema
\* does not name, invalid, and without the schema's key.
Payloads ==
    {[n |-> NUM_1, junk |-> NUM_1], [n |-> Str(<<"x">>)], [junk |-> NUM_1]}

\* Event names: one with a schema, one without, and one that names a
\* property inherited from Object.prototype.
EventNames == {"created", "other", "constructor"}
EventsDefinitions == {events(Undefined), events([created |-> StateSchema])}
StateDefinitions == {state(Undefined), state(StateSchema)}

TokenOps == {"delete", "get", "create"}
ProjectScopedOps ==
    {"projects.tokens." \o m : m \in TokenOps}
    \cup {"projects.projectTokens." \o m : m \in TokenOps}
    \cup {"projects.webhooks.get", "projects.webhooks.create",
          "projects.webhooks.edit", "projects.webhooks.delete",
          "projects.webhooks.regenerateSecret", "projects.getAllMembers",
          "projects.secrets.getAll", "projects.secrets.create",
          "projects.secrets.delete", "registry.images.getAll",
          "registry.images.getManifest", "registry.images.delete"}
TypedChannelOps ==
    {"typed.publish", "typed.delete", "typed.subscribeTokens", "typed.setState",
     "typed.patchState"}
Ops == ProjectScopedOps \cup {"projects.getCurrentMember"} \cup TypedChannelOps

\* The argument lists each operation is invoked with.
OpArgs(op) ==
    CASE op = "projects.secrets.create"
            -> {[project |-> p, value |-> v] : p \in ProjectArgs, v \in SecretValues}
      [] op = "typed.publish"
            -> {[definition |-> d, event |-> e, data |-> x] :
                    d \in EventsDefinitions, e \in EventNames, x \in Payloads}
      [] op \in {"typed.setState", "typed.patchState"}
            -> {[definition |-> d, data |-> x] : d \in StateDefinitions, x \in Payloads}
      [] op \in {"typed.delete", "typed.subscribeTokens"}
            -> {EmptyObject}
      [] OTHER -> {[project |-> p] : p \in ProjectArgs}

\* The namespace of the Hop instance an operation is reached through.
NamespaceOf(op) ==
    IF op \in TypedChannelOps THEN "channels"
    ELSE IF op \in {"registry.images.getAll", "registry.images.getManifest",
                    "registry.images.delete"} THEN "registry"
    ELSE "projects"

\* The tokens member of the projects SDK: delete, get and create.
projects_tokens(method, client, a) ==
    CASE method = "delete" -> tokens_delete(client, PTKID_1, a.project)
      [] method = "get" -> tokens_get(client, a.project)
      [] method = "create" -> tokens_create(client, FLAGS_1, a.project)

\* projectTokens kept as a copy of tokens whose get has lost its guard.
projects_projectTokens_copy(method, client, a) ==
    CASE method = "delete" -> tokens_delete(client, PTKID_1, a.project)
      [] method = "get" -> tokens_get_unguarded(client, a.project)
      [] method = "create" -> tokens_create(client, FLAGS_1, a.project)

\* projectTokens: tokens, the same object under a second name.
projects_projectTokens(method, client, a) == projects_tokens(method, client, a)

\* The method an operation name resolves to, run to its first await.
OpStep(op, client, a) ==
    CASE \E m \in TokenOps : op = "projects.tokens." \o m
            -> projects_tokens(CHOOSE m \in TokenOps : op = "projects.tokens." \o m,
                               client, a)
      [] \E m \in TokenOps : op = "projects.projectTokens." \o m
            -> projects_projectTokens(
                   CHOOSE m \in TokenOps : op = "projects.projectTokens." \o m,
                   client, a)
      [] op = "projects.webhooks.get" -> webhooks_get(client, a.project)
      [] op = "projects.webhooks.create"
            -> webhooks_create(client, WEBHOOK_URL_1, EVENTS_1, a.project)
      [] op = "projects.webhooks.edit"
            -> webhooks_edit(client, WEBHOOK_1, WEBHOOK_URL_1, EVENTS_1, a.project)
      [] op = "projects.webhooks.delete"
            -> webhooks_delete(client, WEBHOOK_1, a.project)
      [] op = "projects.webhooks.regenerateSecret"
            -> webhooks_regenerateSecret(client, WEBHOOK_1, a.project)
      [] op = "projects.getAllMembers" -> getAllMembers(client, a.project)
      [] op = "projects.getCurrentMember" -> getCurrentMember(client, a.project)
      [] op = "projects.secrets.getAll" -> secrets_getAll(client, a.project)
      [] op = "projects.secrets.create"
            -> secrets_create(client, NAME_1, a.value, a.project)
      [] op = "projects.secrets.delete"
            -> secrets_delete(client, SECRET_1, a.project)
      [] op = "registry.images.getAll" -> images_getAll(client, a.project)
      [] op = "registry.images.getManifest"
            -> images_getManifest(client, IMAGE_1, a.project)
      [] op = "registry.images.delete"
            -> images_delete(client, IMAGE_1, a.project)
      [] op = "typed.publish" -> publish(a.definition, CHANNEL_1, a.event, a.data)
      [] op = "typed.delete" -> channel_delete(CHANNEL_1)
      [] op = "typed.subscribeTokens" -> subscribeTokens(CHANNEL_1, TOKENS_1)
      [] op = "typed.setState" -> setState(a.definition, CHANNEL_1, a.data)
      [] op = "typed.patchState" -> patchState(a.definition, CHANNEL_1, a.data)

\* The same method resumed with the value parseAsync resolved to.
OpStepParsed(op, a, parsed) ==
    CASE op = "typed.publish" -> publish_parsed(CHANNEL_1, a.event, parsed)
      [] op = "typed.setState" -> setState_parsed(CHANNEL_1, parsed)
      [] op = "typed.patchState" -> patchState_parsed(CHANNEL_1, parsed)

\* ------------------------------------------------------------------ state

VARIABLES
    hop,      \* the Hop instance: how it was constructed and what it holds
    clients,  \* the APIClient objects constructed so far
    calls     \* the SDK invocations, each with its position and outcome

vars == <<hop, clients, calls>>

CallIds == 1..MaxCalls

NoResult == [kind |-> "none", value |-> Undefined, error |-> NoError]
Return(value) == [kind |-> "return", value |-> value, error |-> NoError]
Rethrow(error) == [kind |-> "throw", value |-> Undefined, error |-> error]

NoResponse == [kind |-> "none", envelope |-> EmptyObject]

IdleCall ==
    [pc |-> "idle", op |-> "", args |-> EmptyObject, step |-> EmptyObject,
     clientCalls |-> <<>>, http |-> 0, wire |-> EmptyObject,
     response |-> NoResponse, result |-> NoResult]

Init ==
    /\ hop = [status |-> "none", error |-> NoError, args |-> <<>>,
              options |-> EmptyObject, client |-> 0,
              sdks |-> [n \in Namespaces |-> 0]]
    /\ clients = <<>>
    /\ calls = [c \in CallIds |-> IdleCall]

\* The message of the constructor's error.  A TLA+ string holds neither a
\* backtick nor a dash outside ASCII: the source's quoting of new Hop() is
\* written with apostrophes and its long dash as a hyphen.
MISSING_AUTHENTICATION ==
    "Missing authentication token to 'new Hop()' - please provide a valid Project Token, User Bearer or Personal Access Token"

\* new Hop(authenticationOrOptions, baseUrl)
Construct(authenticationOrOptions, baseUrl) ==
    /\ hop.status = "none"
    /\ IF MissingAuthentication(authenticationOrOptions)
       THEN /\ hop' = [hop EXCEPT
                         !.status = "failed",
                         !.args = <<authenticationOrOptions, baseUrl>>,
                         !.error = Err("Error", MISSING_AUTHENTICATION)]
            /\ UNCHANGED clients
       ELSE LET options == ClientOptions(authenticationOrOptions, baseUrl)
                made == APIClient(options)
            IN IF ~made.ok
               THEN /\ hop' = [hop EXCEPT
                                 !.status = "failed",
                                 !.args = <<authenticationOrOptions, baseUrl>>,
                                 !.options = options,
                                 !.error = made.error]
                    /\ UNCHANGED clients
               ELSE /\ clients' = Append(clients, made.client)
                    /\ hop' = [hop EXCEPT
                                 !.status = "ready",
                                 !.args = <<authenticationOrOptions, baseUrl>>,
                                 !.options = options,
                                 !.client = Len(clients) + 1,
                                 !.sdks = [n \in Namespaces |-> Len(clients) + 1]]
    /\ UNCHANGED calls

\* The client the SDK namespace of an operation was created with.
ClientOf(op) == clients[hop.sdks[NamespaceOf(op)]]

\* Handing the awaited client call to the client: a projects or registry
\* request goes through the dispatcher, a prepared Request through raw, a
\* channels call through the channels SDK.
Send(client, call) ==
    IF call.via \in {"get", "post", "patch", "delete"} THEN Dispatch(client, call)
    ELSE IF call.via = "raw" THEN Raw(client, call)
    ELSE ChannelsSend(client, call)

\* A call that ran a step: it threw, is suspended in parseAsync, or is
\* suspended at its awaited client call, which is in flight or, when the
\* client could not build the request, is about to be rejected.
AfterStep(call, client, step) ==
    LET made == call.clientCalls \o step.calls IN
    IF step.kind = "throw"
    THEN [call EXCEPT !.pc = "threw", !.step = step, !.clientCalls = made,
                      !.result = Rethrow(step.error)]
    ELSE IF step.kind = "parse"
    THEN [call EXCEPT !.pc = "parsing", !.step = step]
    ELSE LET sent == Send(client, Last(step.calls)) IN
         IF ~sent.ok
         THEN [call EXCEPT !.pc = "rejecting", !.step = step, !.clientCalls = made]
         ELSE [call EXCEPT !.pc = "awaiting", !.step = step, !.clientCalls = made,
                           !.http = call.http + 1, !.wire = sent.wire]

\* getCurrentMember with its test written as an assignment: the client is
\* left with authType 'ptk' and the method throws.
Invoke_assigning(c, op, a) ==
    /\ hop.status = "ready"
    /\ calls[c].pc = "idle"
    /\ \A d \in CallIds : d < c => calls[d].pc # "idle"
    /\ LET assigned == IF op = "projects.getCurrentMember"
                       THEN [ClientOf(op) EXCEPT !.authType = "ptk"]
                       ELSE ClientOf(op)
       IN /\ calls' = [calls EXCEPT ![c] =
                          AfterStep([IdleCall EXCEPT !.op = op, !.args = a],
                                    assigned, OpStep(op, assigned, a))]
          /\ clients' = [clients EXCEPT ![hop.sdks[NamespaceOf(op)]] = assigned]
    /\ UNCHANGED hop

\* The SDK keeping the last project id in a variable shared by its methods:
\* a call without a project id takes the one the call before it was given.
Invoke_remembering(c, op, a) ==
    /\ hop.status = "ready"
    /\ calls[c].pc = "idle"
    /\ \A d \in CallIds : d < c => calls[d].pc # "idle"
    /\ LET remembered ==
               IF /\ c > 1
                  /\ "project" \in DOMAIN a
                  /\ "project" \in DOMAIN calls[c - 1].args
                  /\ ~Truthy(a.project)
               THEN [a EXCEPT !.project = calls[c - 1].args.project]
               ELSE a
       IN calls' = [calls EXCEPT ![c] =
                       AfterStep([IdleCall EXCEPT !.op = op, !.args = a],
                                 ClientOf(op), OpStep(op, ClientOf(op), remembered))]
    /\ UNCHANGED <<hop, clients>>

\* The caller invokes an SDK operation; it runs to its first await.  Calls
\* take the slots in order.
Invoke(c, op, a) ==
    /\ hop.status = "ready"
    /\ calls[c].pc = "idle"
    /\ \A d \in CallIds : d < c => calls[d].pc # "idle"
    /\ calls' = [calls EXCEPT ![c] =
                    AfterStep([IdleCall EXCEPT !.op = op, !.args = a],
                              ClientOf(op), OpStep(op, ClientOf(op), a))]
    /\ UNCHANGED <<hop, clients>>

\* parseAsync settles: the method throws the validation error or goes on to
\* its channels call.
Parsed(c) ==
    /\ calls[c].pc = "parsing"
    /\ LET call == calls[c]
           parsed == parseAsync(call.step.schema, call.step.input)
       IN calls' = [calls EXCEPT ![c] =
                       IF ~parsed.ok
                       THEN [call EXCEPT !.pc = "threw",
                                         !.result = Rethrow(parsed.error)]
                       ELSE AfterStep(call, ClientOf(call.op),
                                      OpStepParsed(call.op, call.args, parsed.value))]
    /\ UNCHANGED <<hop, clients>>

\* The client rejects the promise of a call it could not build a request
\* for; the method, suspended at its await, rethrows.  Nothing was sent.
RejectLocally(c) ==
    /\ calls[c].pc = "rejecting"
    /\ LET call == calls[c]
           sent == Send(ClientOf(call.op), Last(call.clientCalls))
       IN calls' = [calls EXCEPT ![c] =
                       [call EXCEPT !.pc = "threw",
                                    !.result = Rethrow(sent.error)]]
    /\ UNCHANGED <<hop, clients>>

DATA_A == Str(<<"A">>)
DATA_B == Str(<<"B">>)

\* Another field of the response types, present in some answers.
Sibling(field) == IF field = "secret" THEN "secrets" ELSE "secret"

\* The envelopes a server may answer a request with: with the field the
\* endpoint declares (beside a further field), and without it.
Envelopes(field) ==
    IF field = "" THEN {EmptyObject}
    ELSE {(field :> DATA_B) @@ (Sibling(field) :> DATA_A),
          Sibling(field) :> DATA_A}

Responses(field) ==
    {[kind |-> "api_error", envelope |-> EmptyObject],
     [kind |-> "network_error", envelope |-> EmptyObject]}
    \cup {[kind |-> "success", envelope |-> e] : e \in Envelopes(field)}

\* What the client resolves or rejects the awaited call with.
ClientAnswer(response, field) ==
    IF response.kind = "api_error"
    THEN [ok |-> FALSE, error |-> Err("APIError", "non-success status"),
          envelope |-> EmptyObject]
    ELSE IF response.kind = "network_error"
    THEN [ok |-> FALSE, error |-> Err("NetworkError", "transport failure"),
          envelope |-> EmptyObject]
    ELSE Decode(response.envelope, field)

\* The method catching a rejection and throwing an error of its own.
Resume_wrapping(step, answer) ==
    IF ~answer.ok THEN Rethrow(Err("Error", "request failed"))
    ELSE IF step.field = "" THEN Return(Undefined)
    ELSE Return(Get(answer.envelope, step.field))

\* The method after its await: a rejection is rethrown to the caller, a
\* resolved envelope is destructured and the field returned.
Resume(step, answer) ==
    IF ~answer.ok THEN Rethrow(answer.error)
    ELSE IF step.field = "" THEN Return(Undefined)
    ELSE Return(Get(answer.envelope, step.field))

\* The server (or the transport) answers the request in flight.
Respond(c, response) ==
    /\ calls[c].pc = "awaiting"
    /\ LET call == calls[c]
           result == Resume(call.step,
                            ClientAnswer(response, DeclaredField(call.wire)))
       IN calls' = [calls EXCEPT ![c] =
                       [call EXCEPT !.pc = IF result.kind = "throw" THEN "threw"
                                           ELSE "returned",
                                    !.response = response,
                                    !.result = result]]
    /\ UNCHANGED <<hop, clients>>

Next ==
    \/ \E args \in ConstructorArgs : Construct(args[1], args[2])
    \/ \E c \in CallIds, op \in Ops : \E a \in OpArgs(op) : Invoke(c, op, a)
    \/ \E c \in CallIds : Parsed(c)
    \/ \E c \in CallIds : RejectLocally(c)
    \/ \E c \in CallIds :
          /\ calls[c].pc = "awaiting"
          /\ \E r \in Responses(DeclaredField(calls[c].wire)) : Respond(c, r)

Spec == Init /\ [][Next]_vars

\* ---------------------------------------------------------------- claims

Started == {c \in CallIds : calls[c].pc # "idle"}
Settled == {c \in CallIds : calls[c].pc \in {"returned", "threw"}}

\* The authType of the client the calls go through.
AuthType == clients[hop.client].authType

\* A call that failed locally: it threw an Error and nothing was answered.
FailedLocally(c) ==
    /\ calls[c].pc = "threw"
    /\ calls[c].result.kind = "throw"
    /\ calls[c].result.error.name = "Error"
    /\ calls[c].response.kind = "none"

NoProject(c) == calls[c].args.project = Undefined

\* C1: a project-scoped operation called without a project id on a client
\* whose authType is not 'ptk' fails with a local error, and no request at
\* all (get, post, patch, delete, url, raw) is handed to the client.
C1_NoProjectRejected ==
    \A c \in Started :
        (/\ calls[c].op \in ProjectScopedOps
         /\ AuthType # "ptk"
         /\ NoProject(c))
        => /\ FailedLocally(c)
           /\ calls[c].clientCalls = <<>>
           /\ calls[c].http = 0

C1_Witness ==
    \E c \in Started :
        /\ calls[c].op = "projects.tokens.get"
        /\ AuthType = "bearer"
        /\ NoProject(c)
        /\ calls[c].pc = "threw"

\* The path templates that name the project of the token, not a project id.
ThisTemplates ==
    {"/v1/projects/@this/tokens/:project_token_id", "/v1/projects/@this/tokens",
     "/v1/projects/@this/webhooks", "/v1/projects/@this/webhooks/:webhook_id",
     "/v1/projects/@this/webhooks/:webhook_id/regenerate",
     "/v1/projects/@this/members", "/v1/projects/@this/secrets",
     "/v1/projects/@this/secrets/:name", "/v1/projects/@this/secrets/:secret_id"}

RegistryTemplates ==
    {"/v1/registry/images", "/v1/registry/images/:image/manifests",
     "/v1/registry/images/:image"}

\* The request a call put on the wire names no project.
NamesNoProject(c) ==
    /\ "project_id" \notin DOMAIN calls[c].wire.url.segments
    /\ "project" \notin DOMAIN calls[c].wire.url.query
    /\ IF NamespaceOf(calls[c].op) = "registry"
       THEN calls[c].wire.url.path \in RegistryTemplates
       ELSE calls[c].wire.url.path \in ThisTemplates

\* The client resolved the awaited call of c with an envelope.
AnsweredSuccessfully(c) ==
    /\ c \in Settled
    /\ calls[c].response.kind = "success"
    /\ ClientAnswer(calls[c].response, DeclaredField(calls[c].wire)).ok

\* C2: under authType 'ptk' a project-scoped operation called without a
\* project id passes the guard, dispatches one request that names no
\* explicit project ('@this' template, no project query value), and returns
\* normally whenever that request is answered successfully.
C2_PtkNoProjectAccepted ==
    \A c \in Started :
        (/\ calls[c].op \in ProjectScopedOps
         /\ AuthType = "ptk"
         /\ NoProject(c))
        => /\ calls[c].step.kind = "await"
           /\ calls[c].http = 1
           /\ NamesNoProject(c)
           /\ (AnsweredSuccessfully(c) => calls[c].pc = "returned")
           /\ (calls[c].pc = "threw" => calls[c].response.kind # "none")

C2_Witness ==
    \E c \in Started, d \in Started :
        /\ AuthType = "ptk"
        /\ calls[c].op = "registry.images.getAll"
        /\ NoProject(c)
        /\ calls[c].pc = "returned"
        /\ calls[d].op = "projects.secrets.getAll"
        /\ NoProject(d)
        /\ calls[d].pc = "returned"

\* C3: projects.getCurrentMember on a 'ptk' client fails for every projectId,
\* supplied or not, without any request; on a PAT or bearer client with a
\* project id it dispatches GET /v1/projects/:project_id/members/@me.
C3_CurrentMember ==
    \A c \in Started :
        calls[c].op = "projects.getCurrentMember"
        => /\ AuthType = "ptk"
              => /\ FailedLocally(c)
                 /\ calls[c].clientCalls = <<>>
                 /\ calls[c].http = 0
           /\ (AuthType # "ptk" /\ Truthy(calls[c].args.project))
              => /\ calls[c].http = 1
                 /\ calls[c].wire.method = "GET"
                 /\ calls[c].wire.url.path = "/v1/projects/:project_id/members/@me"
                 /\ calls[c].wire.url.segments["project_id"] = calls[c].args.project

C3_Witness ==
    \E c \in Started :
        /\ calls[c].op = "projects.getCurrentMember"
        /\ AuthType = "ptk"
        /\ calls[c].args.project = PROJECT_1
        /\ calls[c].pc = "threw"

\* The guard of the project-scoped operations let the call through.
GuardAccepted(c) == AuthType = "ptk" \/ Truthy(calls[c].args.project)

\* C4: projects.secrets.create, once past the guard, sends one PUT request
\* whose body is exactly the value string and whose Content-Type is
\* text/plain.
C4_SecretBodyIsRawText ==
    \A c \in Started :
        (calls[c].op = "projects.secrets.create" /\ GuardAccepted(c))
        => /\ calls[c].http = 1
           /\ Len(SelectSeq(calls[c].clientCalls, LAMBDA k : k.via = "raw")) = 1
           /\ calls[c].wire.method = "PUT"
           /\ calls[c].wire.body = calls[c].args.value
           /\ DOMAIN calls[c].wire.headers = {"Content-Type"}
           /\ calls[c].wire.headers["Content-Type"] = "text/plain"

C4_Witness ==
    \E c \in Started :
        /\ calls[c].op = "projects.secrets.create"
        /\ GuardAccepted(c)
        /\ calls[c].args.value = Str(<<"\"", "v">>)
        /\ calls[c].pc = "returned"

\* The guard of an operation turned the call away.
GuardRejected(c) ==
    IF calls[c].op \in ProjectScopedOps THEN ~GuardAccepted(c)
    ELSE IF calls[c].op = "projects.getCurrentMember" THEN AuthType = "ptk"
    ELSE FALSE

\* The schema validation of a typed-channels call turned the payload away.
ValidationRejected(c) ==
    /\ calls[c].op \in TypedChannelOps
    /\ calls[c].pc = "threw"
    /\ calls[c].result.error.name = "ZodError"

\* The call is past its guard and its validation.
Accepted(c) ==
    /\ calls[c].pc \in {"rejecting", "awaiting", "returned", "threw"}
    /\ ~GuardRejected(c)
    /\ ~ValidationRejected(c)

\* C5: every invocation performs at most one HTTP request: exactly one when
\* the guard and any schema validation accept the call, none when they
\* reject it, and never a second one after a failed request.
C5_OneRequestPerCall ==
    \A c \in Started :
        /\ calls[c].http <= 1
        /\ (GuardRejected(c) \/ ValidationRejected(c)) => calls[c].http = 0
        /\ Accepted(c) => calls[c].http = 1

\* The error the client fails a call with, by what came back.
ClientErrorName(c) ==
    IF calls[c].response.kind = "api_error" THEN "APIError"
    ELSE IF calls[c].response.kind = "network_error" THEN "NetworkError"
    ELSE "DecodeError"

\* The request of c came back as a failure of the client.
RequestFailed(c) ==
    /\ c \in Settled
    /\ calls[c].response.kind # "none"
    /\ ~AnsweredSuccessfully(c)

\* C6: when the request of an SDK operation fails with an APIError, a
\* NetworkError or a DecodeError, the operation fails with that same error;
\* it returns no value, substitutes no other error and sends nothing more.
C6_ErrorsPropagate ==
    \A c \in Started :
        RequestFailed(c)
        => /\ calls[c].pc = "threw"
           /\ calls[c].result.kind = "throw"
           /\ calls[c].result.error.name = ClientErrorName(c)
           /\ calls[c].result.error =
                  ClientAnswer(calls[c].response, DeclaredField(calls[c].wire)).error
           /\ calls[c].http = 1

C6_Witness ==
    \E c \in Started, d \in Started :
        /\ calls[c].op = "projects.webhooks.delete"
        /\ calls[c].response.kind = "api_error"
        /\ calls[c].pc = "threw"
        /\ calls[d].op = "registry.images.delete"
        /\ calls[d].response.kind = "network_error"
        /\ calls[d].pc = "threw"

\* The credential a construction was given, in either form.
GivenCredential ==
    IF hop.args[1].t = "object" THEN Get(hop.args[1].o, "authentication")
    ELSE hop.args[1]

\* The base URL a construction was given, in either form.
GivenBaseUrl ==
    IF hop.args[1].t = "object" THEN Get(hop.args[1].o, "baseUrl")
    ELSE hop.args[2]

Constructed == hop.status # "none"

NothingCreated ==
    /\ hop.status = "failed"
    /\ clients = <<>>
    /\ hop.client = 0
    /\ \A n \in Namespaces : hop.sdks[n] = 0

OneSharedClient ==
    /\ hop.status = "ready"
    /\ Len(clients) = 1
    /\ hop.client = 1
    /\ \A n \in Namespaces : hop.sdks[n] = hop.client

\* C7 as stated: a missing credential fails the construction and creates
\* nothing; any non-empty credential creates exactly one APIClient shared by
\* the six SDK namespaces.
C7_AsStated ==
    Constructed
    => /\ ~Truthy(GivenCredential) => NothingCreated
       /\ Truthy(GivenCredential) => OneSharedClient

RecognisedCredentials == {PTK_SECRET, PAT_SECRET, BEARER_SECRET}

\* C7, amended: a missing credential fails the construction and creates
\* nothing; a non-empty credential of a supported form (ptk_, pat_, bearer_)
\* creates exactly one APIClient shared by the six SDK namespaces; a
\* non-empty credential of no supported form fails the construction in the
\* APIClient and creates nothing.
C7_Construction ==
    Constructed
    => /\ ~Truthy(GivenCredential)
          => NothingCreated /\ hop.error.name = "Error"
       /\ GivenCredential \in RecognisedCredentials => OneSharedClient
       /\ (Truthy(GivenCredential) /\ GivenCredential \notin RecognisedCredentials)
          => NothingCreated /\ hop.error.name = "InvalidCredential"

C7_Witness ==
    /\ hop.status = "ready"
    /\ hop.args[1] = BEARER_SECRET
    /\ \E c \in Started : calls[c].pc = "returned"

\* C8: after a successful construction, in both forms, the base URL given to
\* the APIClient is the caller's when one was supplied and DEFAULT_BASE_URL
\* otherwise; it is never undefined, not even when the options object has a
\* baseUrl key without a value.
C8_BaseUrlDefaulted ==
    hop.status = "ready"
    => /\ Get(hop.options, "baseUrl") # Undefined
       /\ Get(hop.options, "baseUrl") =
              (IF GivenBaseUrl # Undefined THEN GivenBaseUrl ELSE DEFAULT_BASE_URL)
       /\ clients[hop.client].baseUrl = Get(hop.options, "baseUrl")

\* The field of the envelope each operation destructures, "" for none.
Destructured(op) ==
    CASE op \in {"projects.tokens.get", "projects.projectTokens.get"}
            -> "project_tokens"
      [] op \in {"projects.tokens.create", "projects.projectTokens.create"}
            -> "project_token"
      [] op = "projects.webhooks.get" -> "webhooks"
      [] op \in {"projects.webhooks.create", "projects.webhooks.edit"} -> "webhook"
      [] op = "projects.webhooks.regenerateSecret" -> "secret"
      [] op = "projects.getAllMembers" -> "members"
      [] op = "projects.getCurrentMember" -> "project_member"
      [] op = "projects.secrets.getAll" -> "secrets"
      [] op = "projects.secrets.create" -> "secret"
      [] op = "registry.images.getAll" -> "images"
      [] op = "registry.images.getManifest" -> "manifests"
      [] OTHER -> ""

Getters ==
    {"registry.images.getAll", "registry.images.getManifest",
     "projects.tokens.get", "projects.projectTokens.get",
     "projects.getAllMembers", "projects.getCurrentMember",
     "projects.secrets.getAll", "projects.webhooks.get"}

\* C9: a getter returns exactly its designated field of the successful
\* response envelope, unchanged: images, manifests, project_tokens, members,
\* project_member, secrets, webhooks.
C9_GettersReturnField ==
    \A c \in Started :
        (calls[c].op \in Getters /\ calls[c].pc = "returned")
        => /\ calls[c].response.kind = "success"
           /\ Destructured(calls[c].op) \in DOMAIN calls[c].response.envelope
           /\ calls[c].result.value =
                  calls[c].response.envelope[Destructured(calls[c].op)]

C9_Witness ==
    \E c \in Started :
        /\ calls[c].op = "registry.images.getAll"
        /\ AuthType = "ptk"
        /\ NoProject(c)
        /\ calls[c].pc = "returned"
        /\ calls[c].result.value = DATA_B

\* The answer to c was a success whose envelope lacks the field c reads.
FieldMissing(c) ==
    /\ calls[c].response.kind = "success"
    /\ Destructured(calls[c].op) # ""
    /\ Destructured(calls[c].op) \notin DOMAIN calls[c].response.envelope

\* C10: when the successful envelope lacks the field an operation
\* destructures, the operation fails with a DecodeError; an operation that
\* destructures a field never returns undefined as its result.
C10_MissingFieldIsDecodeError ==
    \A c \in Settled :
        /\ FieldMissing(c)
           => /\ calls[c].pc = "threw"
              /\ calls[c].result.error.name = "DecodeError"
        /\ (calls[c].pc = "returned" /\ Destructured(calls[c].op) # "")
           => calls[c].result.value # Undefined

C10_Witness ==
    \E c \in Settled :
        /\ calls[c].op = "projects.tokens.create"
        /\ FieldMissing(c)
        /\ calls[c].pc = "threw"

\* A client call whose parameter mapping leaves a placeholder of its path
\* template without a value.
Unresolved(k) ==
    /\ k.via \in {"get", "post", "patch", "delete", "url"}
    /\ \E n \in Placeholders(k.path) : ~Resolves(k.params, n)

\* C11: a client call whose parameter mapping lacks a value for a ':name'
\* placeholder of its template fails before any network I/O, and every
\* request on the network has each placeholder of its path filled with a
\* value.
C11_MissingPlaceholderFailsLocally ==
    \A c \in Started :
        /\ (\E i \in 1..Len(calls[c].clientCalls) : Unresolved(calls[c].clientCalls[i]))
           => /\ calls[c].pc \in {"rejecting", "threw"}
              /\ calls[c].pc = "threw"
                 => /\ FailedLocally(c)
                    /\ calls[c].result.error.message = "missing path parameter"
              /\ calls[c].http = 0
              /\ calls[c].wire = EmptyObject
              /\ calls[c].response = NoResponse
        /\ (calls[c].http > 0 /\ "url" \in DOMAIN calls[c].wire)
           => /\ DOMAIN calls[c].wire.url.segments
                     = Placeholders(calls[c].wire.url.path)
              /\ \A n \in DOMAIN calls[c].wire.url.segments :
                     Truthy(calls[c].wire.url.segments[n])

C11_Witness ==
    \E c \in Started :
        /\ calls[c].op = "projects.getCurrentMember"
        /\ AuthType = "pat"
        /\ NoProject(c)
        /\ Unresolved(calls[c].clientCalls[1])
        /\ calls[c].pc = "threw"
        /\ calls[c].http = 0

\* The operations that hand the project to the client as a query parameter.
QueryOps ==
    {"registry.images.getAll", "registry.images.getManifest",
     "registry.images.delete", "projects.secrets.create"}

\* C12: in the request of an operation that passes the project as a
\* non-path parameter, an absent project does not appear in the query string
\* at all (no key, no empty value, no text 'undefined'), and a supplied one
\* appears once, with the value given.
C12_AbsentQueryOmitted ==
    \A c \in Started :
        (calls[c].op \in QueryOps /\ calls[c].http = 1)
        => LET query == calls[c].wire.url.query IN
           /\ DOMAIN query \subseteq {"project"}
           /\ \A k \in DOMAIN query :
                  query[k] \notin {Undefined, EMPTY_STRING, UNDEFINED_TEXT}
           /\ NoProject(c) => "project" \notin DOMAIN query
           /\ ~NoProject(c)
              => /\ "project" \in DOMAIN query
                 /\ query["project"] = calls[c].args.project

C12_Witness ==
    \E c \in Started, d \in Started :
        /\ AuthType = "ptk"
        /\ calls[c].op = "registry.images.getManifest"
        /\ NoProject(c)
        /\ calls[c].http = 1
        /\ calls[c].wire.url.query = EmptyObject
        /\ calls[d].op = "projects.secrets.create"
        /\ calls[d].args.project = PROJECT_1
        /\ calls[d].http = 1
        /\ calls[d].wire.url.query["project"] = PROJECT_1

\* The schema the definitions given to the typed client hold for the
\* payload of a publish or setState call (for publish: the entry of the
\* schemas object under the event name), Undefined when there is none.
SchemaOf(c) ==
    IF calls[c].op = "typed.publish"
    THEN IF calls[c].args.definition.schemas = Undefined THEN Undefined
         ELSE Get(calls[c].args.definition.schemas, calls[c].args.event)
    ELSE calls[c].args.definition.schema

\* The channels SDK method behind publish and setState.
ChannelsMethod(op) ==
    IF op = "typed.publish" THEN "channels.publishMessage" ELSE "channels.setState"

\* C13: typed-channels publish and setState validate the payload when a
\* schema is present and send the parsed value; when validation fails the
\* validation error reaches the caller and nothing is sent; with no schema
\* (none at all, or none for the event name) the payload is sent as given.
C13_ValidatedThenSent ==
    \A c \in Started :
        calls[c].op \in {"typed.publish", "typed.setState"}
        => IF calls[c].pc = "parsing"
           THEN SchemaOf(c) # Undefined /\ calls[c].http = 0
           ELSE IF SchemaOf(c) # Undefined
           THEN LET parsed == parseAsync(SchemaOf(c), calls[c].args.data) IN
                IF parsed.ok
                THEN /\ calls[c].http = 1
                     /\ calls[c].wire.method = ChannelsMethod(calls[c].op)
                     /\ Last(calls[c].wire.args) = parsed.value
                ELSE /\ calls[c].pc = "threw"
                     /\ calls[c].result = Rethrow(parsed.error)
                     /\ calls[c].result.error.name = "ZodError"
                     /\ calls[c].http = 0
                     /\ calls[c].clientCalls = <<>>
                     /\ calls[c].wire = EmptyObject
           ELSE /\ calls[c].http = 1
                /\ calls[c].wire.method = ChannelsMethod(calls[c].op)
                /\ Last(calls[c].wire.args) = calls[c].args.data

\* C14: projects.projectTokens and projects.tokens are one capability under
\* two names: get, create and delete called through either name with the
\* same arguments have the same guard verdict and the same request, and the
\* same result whenever they are answered alike.
C14_AliasSameCapability ==
    \A c \in Started, d \in Started :
        \A m \in TokenOps :
            (/\ calls[c].op = "projects.tokens." \o m
             /\ calls[d].op = "projects.projectTokens." \o m
             /\ calls[c].args = calls[d].args)
            => /\ calls[c].step = calls[d].step
               /\ calls[c].clientCalls = calls[d].clientCalls
               /\ calls[c].http = calls[d].http
               /\ calls[c].wire = calls[d].wire
               /\ calls[c].response = calls[d].response
                  => /\ calls[c].pc = calls[d].pc
                     /\ calls[c].result = calls[d].result

C14_Witness ==
    \E c \in Started, d \in Started :
        /\ AuthType = "pat"
        /\ calls[c].op = "projects.tokens.create"
        /\ calls[d].op = "projects.projectTokens.create"
        /\ calls[c].args = calls[d].args
        /\ calls[c].args.project = PROJECT_1
        /\ calls[c].response = calls[d].response
        /\ calls[c].pc = "returned"
        /\ calls[d].pc = "returned"

\* The guard of the operation turned call c away.
Rejected(c) == calls[c].step.kind = "throw" /\ calls[c].clientCalls = <<>>

\* The client as the constructor created it.
ClientAtConstruction == APIClient(hop.options).client

\* C15: no SDK operation, whatever its outcome, changes the authType, the
\* credential or the base URL of the client: while calls are made they stay
\* what the constructor set; and two calls of one operation that agree on
\* whether a project id is given get the same guard verdict.
C15_ClientUnchanged ==
    hop.status = "ready"
    => /\ clients = <<ClientAtConstruction>>
       /\ clients[hop.client].authentication = GivenCredential
       /\ clients[hop.client].authType = classify(GivenCredential)
       /\ clients[hop.client].baseUrl = Get(hop.options, "baseUrl")
       /\ \A c \in Started, d \in Started :
              (/\ calls[c].op = calls[d].op
               /\ "project" \in DOMAIN calls[c].args
               /\ Truthy(calls[c].args.project) = Truthy(calls[d].args.project))
              => Rejected(c) = Rejected(d)

C15_Witness ==
    \E c \in Started, d \in Started :
        /\ AuthType = "pat"
        /\ calls[c].op = "projects.getAllMembers"
        /\ Rejected(c)
        /\ calls[d].op = "projects.getAllMembers"
        /\ calls[d].response.kind = "api_error"
        /\ calls[d].pc = "threw"
        /\ clients = <<ClientAtConstruction>>

\* A call of op with arguments a, run to its first await with no other call
\* about.
AloneInvoked(op, a) ==
    AfterStep([IdleCall EXCEPT !.op = op, !.args = a],
              ClientAtConstruction, OpStep(op, ClientAtConstruction, a))

\* The same call once its validation, if it has one, has settled.
AloneParsed(call) ==
    IF call.pc # "parsing" THEN call
    ELSE LET parsed == parseAsync(call.step.schema, call.step.input) IN
         IF ~parsed.ok
         THEN [call EXCEPT !.pc = "threw", !.result = Rethrow(parsed.error)]
         ELSE AfterStep(call, ClientAtConstruction,
                        OpStepParsed(call.op, call.args, parsed.value))

\* The same call once the client call it is suspended at has settled: the
\* client rejected it without a request, or the request was answered.
AloneAnswered(call, response) ==
    IF call.pc = "rejecting"
    THEN [call EXCEPT !.pc = "threw",
                      !.result = Rethrow(Send(ClientAtConstruction,
                                              Last(call.clientCalls)).error)]
    ELSE IF call.pc # "awaiting" \/ response = NoResponse THEN call
    ELSE LET result == Resume(call.step,
                              ClientAnswer(response, DeclaredField(call.wire)))
         IN [call EXCEPT !.pc = IF result.kind = "throw" THEN "threw"
                                ELSE "returned",
                         !.response = response,
                         !.result = result]

\* C16: in every interleaving of concurrent calls through one client, the
\* guard verdict, the request and the result of each call are those of the
\* same call, with the same arguments and the same answer, running alone.
C16_CallsIndependent ==
    \A c \in Started :
        LET invoked == AloneInvoked(calls[c].op, calls[c].args) IN
        IF calls[c].pc = "parsing" THEN calls[c] = invoked
        ELSE IF calls[c].pc = "rejecting" THEN calls[c] = AloneParsed(invoked)
        ELSE calls[c] = AloneAnswered(AloneParsed(invoked), calls[c].response)

C16_Witness ==
    /\ calls[1].op = "projects.secrets.create"
    /\ calls[1].pc = "awaiting"
    /\ calls[2].op = "typed.setState"
    /\ calls[2].args.definition = state(StateSchema)
    /\ calls[2].pc = "returned"

\* C17: typed-channels patchState is a partial update through
\* hop.channels.patchState whether or not a state schema is defined; it
\* never goes through hop.channels.setState.
C17_PatchStatePatches ==
    \A c \in Started :
        (calls[c].op = "typed.patchState" /\ calls[c].http = 1)
        => /\ calls[c].wire.method = "channels.patchState"
           /\ \A i \in 1..Len(calls[c].clientCalls) :
                  calls[c].clientCalls[i].via # "channels.setState"

\* The project-scoped operations of the projects SDK.
ProjectsScopedOps == {op \in ProjectScopedOps : NamespaceOf(op) = "projects"}

\* The request of c names the project of the token: an '@this' template, no
\* project id anywhere.
AddressedAsThis(c) ==
    /\ calls[c].wire.url.path \in ThisTemplates
    /\ "project_id" \notin DOMAIN calls[c].wire.url.segments
    /\ "project" \notin DOMAIN calls[c].wire.url.query

\* The request of c names the project in its path: a ':project_id' template
\* with project_id bound to the project id given.
AddressedById(c) ==
    /\ calls[c].wire.url.path \notin ThisTemplates
    /\ "project_id" \in Placeholders(calls[c].wire.url.path)
    /\ calls[c].wire.url.segments["project_id"] = calls[c].args.project
    /\ "project" \notin DOMAIN calls[c].wire.url.query

\* C18 as stated: every project-scoped operation of the projects SDK,
\* secrets.create included, uses an '@this' template iff no project id was
\* given and the ':project_id' template, project_id bound, when one was.
C18_AsStated ==
    \A c \in Started :
        (calls[c].op \in ProjectsScopedOps /\ calls[c].http = 1)
        => IF NoProject(c) THEN AddressedAsThis(c) ELSE AddressedById(c)

\* C18, amended: tokens, webhooks, members, secrets.getAll and
\* secrets.delete use an '@this' template iff no project id was given and
\* the ':project_id' template, project_id bound, when one was, under any
\* authType; secrets.create always uses '/v1/projects/@this/secrets/:name'
\* and carries a given project id as the query parameter 'project'.
C18_ProjectAddressing ==
    \A c \in Started :
        (calls[c].op \in ProjectsScopedOps /\ calls[c].http = 1)
        => IF calls[c].op # "projects.secrets.create"
           THEN IF NoProject(c) THEN AddressedAsThis(c) ELSE AddressedById(c)
           ELSE /\ calls[c].wire.url.path = "/v1/projects/@this/secrets/:name"
                /\ DOMAIN calls[c].wire.url.segments = {"name"}
                /\ IF NoProject(c)
                   THEN calls[c].wire.url.query = EmptyObject
                   ELSE calls[c].wire.url.query = [project |-> calls[c].args.project]

C18_Witness ==
    \E c \in Started, d \in Started :
        /\ AuthType = "ptk"
        /\ calls[c].op = "projects.secrets.create"
        /\ calls[c].args.project = PROJECT_1
        /\ calls[c].http = 1
        /\ calls[c].wire.url.path \in ThisTemplates
        /\ calls[d].op = "projects.secrets.delete"
        /\ calls[d].args.project = PROJECT_1
        /\ calls[d].http = 1
        /\ AddressedById(d)

\* The operations of the projects and registry SDKs.
RestOps == ProjectScopedOps \cup {"projects.getCurrentMember"}

\* C19: in every client call of a projects or registry operation that
\* passed its guard, the parameter mapping has a value for each ':name'
\* placeholder of the chosen template and its only further key is 'project';
\* no such call ends in the missing-placeholder failure.
C19_ParamsMatchTemplate ==
    \A c \in Started :
        (calls[c].op \in RestOps /\ ~Rejected(c))
        => /\ \A i \in 1..Len(calls[c].clientCalls) :
                  LET k == calls[c].clientCalls[i] IN
                  /\ ~Unresolved(k)
                  /\ DOMAIN k.params \ Placeholders(k.path) \subseteq {"project"}
           /\ ~(/\ FailedLocally(c)
                /\ calls[c].result.error.message = "missing path parameter")

====
